---- MODULE Spec2Model ----
(***************************************************************************)
(* The device manager of llad (src/llad/DeviceManager.cpp): the registry   *)
(* that gives every device unique id a stable alias, tracks which devices  *)
(* are active, and saves / restores the universe each port is patched to   *)
(* through the "port" preferences.                                         *)
(*                                                                         *)
(* Strings that are only compared (device and port unique ids) are TLA+    *)
(* strings; strings that are formatted and parsed (preference values) are  *)
(* sequences of one-character strings, so IntToString and strtol are       *)
(* computed digit by digit.                                                *)
(***************************************************************************)
EXTENDS Integers, Sequences, FiniteSets, TLC

(***************************************************************************)
(* Bounds of the model.                                                    *)
(***************************************************************************)
\* number of distinct non-empty device unique ids ("usb-1" .. )
NumIdentities == 3
\* the universe id clients patch ports to (two digits); the initial stores
\* add the ids 5 and 0 (what strtol makes of a value that is no number)
MaxUniverseId == 10

(***************************************************************************)
(* Program constants.                                                      *)
(***************************************************************************)
\* DeviceManager::MISSING_DEVICE_ALIAS
MISSING_DEVICE_ALIAS == 0
\* DeviceManager::FIRST_DEVICE_ALIAS (declared in DeviceManager.h)
FIRST_DEVICE_ALIAS == 1
\* aliases are unsigned int; with NumIdentities unique ids the counter stays
\* far below 2^32, so its increment never wraps in the model

(***************************************************************************)
(* The devices and ports the plugin layer owns.  A device pointer is       *)
(* <<identity, instance>>; identity 0 is the device whose driver gives no  *)
(* unique id.  Identity 1 exists in two instances: the object before and   *)
(* the object after a reconnect, each with its own port object carrying    *)
(* the same port unique id.                                                *)
(***************************************************************************)
NULL == <<>>

IdTable == <<"usb-1", "usb-2", "usb-3", "usb-4", "usb-5">>

Identities == 1..NumIdentities

Devices ==
    {<<k, 1>> : k \in Identities} \cup {<<1, 2>>} \cup {<<0, 1>>}

\* AbstractDevice::UniqueId()
UniqueId(device) ==
    IF device[1] = 0 THEN "" ELSE IdTable[device[1]]

DeviceIds == {IdTable[k] : k \in Identities}

\* AbstractDevice::Ports(): identities 1 and 2 have one persistable port,
\* identity 3 a port without unique id, the others no port
Ports(device) ==
    IF device[1] \in {1, 2, 3} THEN << <<device, 1>> >> ELSE << >>

AllPorts ==
    UNION {{Ports(d)[i] : i \in 1..Len(Ports(d))} : d \in Devices}

\* AbstractPort::UniqueId()
PortUniqueId(port) ==
    CASE port[1][1] = 1 -> "portA"
      [] port[1][1] = 2 -> "portB"
      [] OTHER -> ""

PortKeys == {PortUniqueId(p) : p \in AllPorts} \ {""}

\* the universe ids clients patch ports to
UniverseIds == {MaxUniverseId}

\* AbstractPort::GetUniverse() = NULL
NoUniverse == -1

(***************************************************************************)
(* Decimal strings.                                                        *)
(***************************************************************************)
Digits == <<"0", "1", "2", "3", "4", "5", "6", "7", "8", "9">>

DigitChars == {Digits[i] : i \in 1..10}

DigitValue(c) == CHOOSE v \in 0..9 : Digits[v + 1] = c

RECURSIVE NatToString(_)
NatToString(n) ==
    IF n < 10 THEN <<Digits[n + 1]>>
    ELSE Append(NatToString(n \div 10), Digits[(n % 10) + 1])

\* lla::IntToString(int): the decimal representation
IntToString(n) ==
    IF n < 0 THEN <<"-">> \o NatToString(-n) ELSE NatToString(n)


(***************************************************************************)
(* strtol(s, NULL, 10) on the characters of a preference value: an         *)
(* optional sign, then the longest run of digits; conversion stops at the  *)
(* first other character.  The values of the model have at most            *)
(* three characters, so        the result is far from LONG_MAX and from     *)
(* INT_MAX: strtol never reports ERANGE and the cast to int keeps the      *)
(* value.                                                                  *)
(***************************************************************************)
HasSign(s) == Len(s) > 0 /\ s[1] \in {"-", "+"}

\* the characters after the optional sign
AfterSign(s) == IF HasSign(s) THEN Tail(s) ELSE s

RECURSIVE DigitPrefixLen(_)
DigitPrefixLen(s) ==
    IF Len(s) > 0 /\ s[1] \in DigitChars THEN 1 + DigitPrefixLen(Tail(s)) ELSE 0

RECURSIVE DigitsValue(_, _)
DigitsValue(s, n) ==
    IF n = 0 THEN 0 ELSE 10 * DigitsValue(s, n - 1) + DigitValue(s[n])

\* no digit follows the optional sign: strtol performs no conversion
NoConversion(s) == DigitPrefixLen(AfterSign(s)) = 0

StrtolMagnitude(s) == DigitsValue(AfterSign(s), DigitPrefixLen(AfterSign(s)))

\* (bug: only the first digit is converted, as uni_id[0] - '0' would)
StrtolValueOneDigit(s) ==
    IF NoConversion(s) THEN 0
    ELSE IF HasSign(s) /\ s[1] = "-" THEN -DigitValue(AfterSign(s)[1])
    ELSE DigitValue(AfterSign(s)[1])

\* (int) strtol(uni_id.data(), NULL, 10)
StrtolValue(s) ==
    IF HasSign(s) /\ s[1] = "-" THEN -StrtolMagnitude(s) ELSE StrtolMagnitude(s)

\* is errno set after the call, having been zeroed before it: when no
\* conversion is performed the C library may or may not set EINVAL (einval
\* is that choice of the library); a conversion in range leaves errno 0
StrtolErrno(s, einval) == NoConversion(s) /\ einval

(***************************************************************************)
(* Maps (std::map) as functions with a finite domain.                      *)
(***************************************************************************)
Put(f, k, v) == [x \in DOMAIN f \cup {k} |-> IF x = k THEN v ELSE f[x]]

Erase(f, k) == [x \in DOMAIN f \ {k} |-> f[x]]

EmptyMap == [x \in {} |-> x]

\* device_alias_pair
DeviceAliasPair(alias, device) == [alias |-> alias, device |-> device]

\* (bug: m_devices[device_id] in place of find inserts a record)
FindInserting(devices, device_id) ==
    IF device_id \in DOMAIN devices THEN devices
    ELSE Put(devices, device_id, DeviceAliasPair(0, <<>>))

\* m_devices.find(device_id): the map after the lookup, which is the map before
Find(devices, device_id) == devices

(***************************************************************************)
(* The Preferences collaborator, as the manager uses it.                   *)
(***************************************************************************)
\* Preferences::GetValue: the stored string, empty when the key is absent
GetValue(store, key) == IF key \in DOMAIN store THEN store[key] ELSE <<>>

\* Preferences::SetValue
SetValue(store, key, value) == Put(store, key, value)

\* Preferences::RemoveValue: removing an absent key is not an error
RemoveValue(store, key) == Erase(store, key)

\* what the durable "port" preferences hold when the daemon starts: the
\* spec's example,
ExampleStore == [k \in {"portA"} |-> <<"5">>]

\* or a legacy file with a value that is no number and an empty value
LegacyStore ==
    [k \in {"portA", "portB"} |->
        IF k = "portB" THEN <<"a", "b", "c">> ELSE <<>>]

\* the integers (universe ids, and their negatives) whose decimal string a
\* preference value is
StoredInteger(value) ==
    {n \in (-MaxUniverseId)..MaxUniverseId : IntToString(n) = value}

\* the bindings an earlier manager saved to leave these preferences on disk
SavedEarlier(stored) ==
    [k \in {x \in DOMAIN stored : StoredInteger(stored[x]) # {}} |->
        CHOOSE n \in StoredInteger(stored[k]) : TRUE]

(***************************************************************************)
(* State.                                                                  *)
(***************************************************************************)
VARIABLES
    m_devices,            \* unique id -> [alias, device]: the Identity Records
    m_alias_map,          \* alias -> device: the Alias Index
    m_next_device_alias,  \* the next alias to hand out
    has_preferences,      \* m_port_preferences # NULL
    m_port_preferences,   \* the loaded preferences: port unique id -> string
    durable,              \* the preferences as last loaded from / saved to disk
    port_universe,        \* port -> id of the universe it is bound to
    call,                 \* the last call and what it returned
    reg_order,            \* history: unique ids in order of first registration
    first_alias,          \* history: unique id -> the alias GetDevice returned
                          \*          after its first registration
    registered,           \* history: ids registered and not since unregistered
    last_saved            \* history: port unique id -> id of the universe the
                          \*          port was bound to when its device was last
                          \*          unregistered, by this manager or an earlier
                          \*          one (no entry: it was not bound)

vars == <<m_devices, m_alias_map, m_next_device_alias, has_preferences,
          m_port_preferences, durable, port_universe, call,
          reg_order, first_alias, registered, last_saved>>

manager == <<m_devices, m_alias_map, m_next_device_alias>>

history == <<reg_order, first_alias, registered, last_saved>>

\* what a call leaves in `call`
\* (device: the device a successful call registered or unregistered, for
\* UnregisterAllDevices the last of them, else NULL; log: what a failing call logged; requested: the ids the call passed
\* to GetUniverseOrCreate; reference: the pointer a successful
\* UnregisterDevice(const AbstractDevice*) was called with, else NULL)
Call(op, device, result, log, requested) ==
    [op |-> op, device |-> device, result |-> result, log |-> log,
     requested |-> requested, reference |-> NULL]

(***************************************************************************)
(* Queries.                                                                *)
(***************************************************************************)
\* is a device active under this unique id
IsActive(devices, unique_id) ==
    unique_id \in DOMAIN devices /\ devices[unique_id].device # NULL

\* DeviceManager::GetDevice(const string&) on a given record map
GetDeviceIn(devices, unique_id) ==
    IF IsActive(devices, unique_id)
    THEN devices[unique_id]
    ELSE DeviceAliasPair(MISSING_DEVICE_ALIAS, NULL)

GetDeviceById(unique_id) == GetDeviceIn(m_devices, unique_id)

\* DeviceManager::GetDevice(unsigned int)
GetDeviceByAlias(alias) ==
    IF alias \in DOMAIN m_alias_map THEN m_alias_map[alias] ELSE NULL

\* DeviceManager::Devices(): the active records, as a set of pairs
DevicesIn(devices) ==
    {devices[id] : id \in {i \in DOMAIN devices : devices[i].device # NULL}}

ListDevices == DevicesIn(m_devices)

\* (bug: inactive records are counted too)
DeviceCountAll(devices) == Cardinality(DOMAIN devices)

\* DeviceManager::DeviceCount()
DeviceCountIn(devices) ==
    Cardinality({id \in DOMAIN devices : devices[id].device # NULL})

DeviceCount == DeviceCountIn(m_devices)


(***************************************************************************)
(* SaveDevicePortPatchings.                                                *)
(***************************************************************************)
\* (bug: the test of the port's unique id is missing)
SavePortPatchingUnkeyed(store, bind, port) ==
    IF bind[port] = NoUniverse
    THEN RemoveValue(store, PortUniqueId(port))
    ELSE SetValue(store, PortUniqueId(port), IntToString(bind[port]))

\* (bug: the test of GetUniverse() is inverted)
SavePortPatchingInverted(store, bind, port) ==
    IF PortUniqueId(port) = "" THEN store
    ELSE IF bind[port] # NoUniverse
         THEN RemoveValue(store, PortUniqueId(port))
         ELSE store

\* (bug: the value of an unpatched port is not removed)
SavePortPatchingKeeps(store, bind, port) ==
    IF PortUniqueId(port) = "" THEN store
    ELSE IF bind[port] = NoUniverse
         THEN store
         ELSE SetValue(store, PortUniqueId(port), IntToString(bind[port]))

\* one iteration of the loop over the ports: the preferences afterwards
SavePortPatching(store, bind, port) ==
    IF PortUniqueId(port) = "" THEN store
    ELSE IF bind[port] = NoUniverse
         THEN RemoveValue(store, PortUniqueId(port))
         ELSE SetValue(store, PortUniqueId(port), IntToString(bind[port]))

RECURSIVE SavePorts(_, _, _, _)
SavePorts(store, bind, ports, i) ==
    IF i > Len(ports) THEN store
    ELSE SavePorts(SavePortPatching(store, bind, ports[i]), bind, ports, i + 1)

\* (bug: the test of m_port_preferences is missing)
SaveDevicePortPatchingsUnguarded(store, bind, device) ==
    IF device = NULL THEN store
    ELSE SavePorts(store, bind, Ports(device), 1)

\* DeviceManager::SaveDevicePortPatchings: the preferences afterwards
SaveDevicePortPatchings(store, bind, device) ==
    IF ~has_preferences \/ device = NULL THEN store
    ELSE SavePorts(store, bind, Ports(device), 1)

(***************************************************************************)
(* RestoreDevicePortPatchings.  The state it works on is                   *)
(* [bind, requested]: the port bindings and the ids asked of               *)
(* GetUniverseOrCreate so far.                                             *)
(***************************************************************************)
\* UniverseStore::GetUniverseOrCreate(id), then Universe::AddPort(port)
BindPort(st, port, id) ==
    [bind |-> [st.bind EXCEPT ![port] = id],
     requested |-> st.requested \cup {id}]

\* (bug: the test of uni_id.empty() is missing)
RestorePortPatchingEmptyParsed(st, store, port, einval) ==
    LET uni_id == GetValue(store, PortUniqueId(port))
        id == StrtolValue(uni_id)
    IN  IF PortUniqueId(port) = "" THEN st
        ELSE IF id = 0 /\ StrtolErrno(uni_id, einval) THEN st
        ELSE BindPort(st, port, id)

\* one iteration of the loop over the ports
RestorePortPatching(st, store, port, einval) ==
    LET uni_id == GetValue(store, PortUniqueId(port))
        id == StrtolValue(uni_id)
    IN  IF PortUniqueId(port) = "" THEN st
        ELSE IF uni_id = <<>> THEN st
        ELSE IF id = 0 /\ StrtolErrno(uni_id, einval) THEN st
        ELSE BindPort(st, port, id)

RECURSIVE RestorePorts(_, _, _, _, _)
RestorePorts(st, store, ports, i, einval) ==
    IF i > Len(ports) THEN st
    ELSE RestorePorts(RestorePortPatching(st, store, ports[i], einval),
                      store, ports, i + 1, einval)

\* DeviceManager::RestoreDevicePortPatchings
RestoreDevicePortPatchings(st, store, device, einval) ==
    IF ~has_preferences \/ device = NULL THEN st
    ELSE RestorePorts(st, store, Ports(device), 1, einval)

(***************************************************************************)
(* RegisterDevice.                                                         *)
(***************************************************************************)
\* (bug: the check of the unique id is missing)
HasUniqueIdUnchecked(device) == device # NULL

\* the argument checks: a device, with a unique id
HasUniqueId(device) == device # NULL /\ UniqueId(device) # ""

\* (bug: an active record is overwritten)
AlreadyRegisteredNever(devices, device_id) == FALSE

\* a record with a device exists: "already registered"
AlreadyRegistered(devices, device_id) ==
    device_id \in DOMAIN devices /\ devices[device_id].device # NULL

\* (bug: a fresh alias on every registration)
AliasForFresh(devices, device_id, next) == next

\* the alias of the device: the one of its record, or the next unused one
AliasFor(devices, device_id, next) ==
    IF device_id \in DOMAIN devices THEN devices[device_id].alias ELSE next

\* (bug: the counter is never incremented)
NextAliasStuck(devices, device_id, next) == next

\* (bug: the counter is incremented on every registration)
NextAliasAlways(devices, device_id, next) == next + 1

\* m_next_device_alias afterwards: incremented when an alias was allocated
NextAliasAfter(devices, device_id, next) ==
    IF device_id \in DOMAIN devices THEN next ELSE next + 1

\* the record map afterwards: the record updated or created
RecordDevice(devices, device_id, alias, device) ==
    Put(devices, device_id, DeviceAliasPair(alias, device))

\* DeviceManager::RegisterDevice
RegisterDevice(device, einval) ==
    LET device_id == UniqueId(device) IN
    IF ~HasUniqueId(device) \/ AlreadyRegistered(m_devices, device_id)
    THEN /\ call' = Call("register", NULL, FALSE,
                         IF device = NULL THEN ""
                         ELSE IF ~HasUniqueId(device) THEN "is missing UniqueId"
                         ELSE "is already registered", {})
         /\ m_devices' = IF HasUniqueId(device) THEN Find(m_devices, device_id)
                          ELSE m_devices
         /\ UNCHANGED <<m_alias_map, m_next_device_alias, has_preferences,
                        m_port_preferences, durable, port_universe, history>>
    ELSE LET alias == AliasFor(m_devices, device_id, m_next_device_alias)
             st == RestoreDevicePortPatchings(
                       [bind |-> port_universe, requested |-> {}],
                       m_port_preferences, device, einval)
         IN  /\ call' = Call("register", device, TRUE, "", st.requested)
             /\ m_next_device_alias' =
                    NextAliasAfter(m_devices, device_id, m_next_device_alias)
             /\ m_devices' = RecordDevice(m_devices, device_id, alias, device)
             /\ m_alias_map' = Put(m_alias_map, alias, device)
             /\ port_universe' = st.bind
             /\ reg_order' = IF device_id \in DOMAIN first_alias THEN reg_order
                             ELSE Append(reg_order, device_id)
             /\ first_alias' =
                    IF device_id \in DOMAIN first_alias THEN first_alias
                    ELSE Put(first_alias, device_id,
                             GetDeviceIn(m_devices', device_id).alias)
             /\ registered' = registered \cup {device_id}
             /\ UNCHANGED <<has_preferences, m_port_preferences, durable,
                            last_saved>>


(***************************************************************************)
(* UnregisterDevice, both overloads.                                       *)
(***************************************************************************)
\* the history of the bindings at unregistration, after the devices of a set
\* have been unregistered: their ports with a unique id are entered with the
\* universe they are bound to, or dropped when they are not bound
BoundWhenUnregistered(saved, bind, devices) ==
    LET ports == {p \in AllPorts : p[1] \in devices /\ PortUniqueId(p) # ""}
        keys == {PortUniqueId(p) : p \in ports}
        bound == {p \in ports : bind[p] # NoUniverse}
    IN  [k \in (DOMAIN saved \ keys) \cup {PortUniqueId(p) : p \in bound} |->
            IF k \in keys
            THEN bind[CHOOSE p \in bound : PortUniqueId(p) = k]
            ELSE saved[k]]

\* no active record for the id: "not found"
NotFound(devices, device_id) ==
    device_id \notin DOMAIN devices \/ devices[device_id].device = NULL

\* (bug: the alias stays in m_alias_map)
EraseAliasForgotten(alias_map, alias) == alias_map

\* m_alias_map.erase of the alias, when it is there
EraseAlias(alias_map, alias) ==
    IF alias \in DOMAIN alias_map THEN Erase(alias_map, alias) ELSE alias_map

\* (bug: the record is erased with m_devices.erase(iter))
ClearDeviceErased(devices, device_id) == Erase(devices, device_id)

\* (bug: the record keeps its device)
ClearDeviceForgotten(devices, device_id) == devices

\* iter->second.device = NULL
ClearDevice(devices, device_id) ==
    [devices EXCEPT ![device_id].device = NULL]

\* the body of UnregisterDevice(const string&), reached from either overload
Unregister(op, device_id, reference) ==
    IF NotFound(m_devices, device_id)
    THEN /\ call' = Call(op, NULL, FALSE, "not found", {})
         /\ m_devices' = Find(m_devices, device_id)
         /\ UNCHANGED <<m_alias_map, m_next_device_alias, has_preferences,
                        m_port_preferences, durable, port_universe, history>>
    ELSE /\ call' = [Call(op, m_devices[device_id].device, TRUE, "", {})
                       EXCEPT !.reference = reference]
         /\ m_port_preferences' =
                SaveDevicePortPatchings(m_port_preferences, port_universe,
                                        m_devices[device_id].device)
         /\ m_alias_map' = EraseAlias(m_alias_map, m_devices[device_id].alias)
         /\ m_devices' = ClearDevice(m_devices, device_id)
         /\ registered' = registered \ {device_id}
         /\ last_saved' = BoundWhenUnregistered(last_saved, port_universe,
                                                {m_devices[device_id].device})
         /\ UNCHANGED <<m_next_device_alias, has_preferences, durable,
                        port_universe, reg_order, first_alias>>

\* DeviceManager::UnregisterDevice(const string &device_id)
UnregisterDeviceById(device_id) ==
    Unregister("unregister_id", device_id, NULL)

\* (bug: the pointer is compared with the registered device, so only the
\* registered object itself can be unregistered)
UnregisterDeviceByPointerSame(device) ==
    IF ~HasUniqueId(device) \/ GetDeviceById(UniqueId(device)).device # device
    THEN /\ call' = Call("unregister_device", NULL, FALSE, "", {})
         /\ UNCHANGED <<manager, has_preferences, m_port_preferences, durable,
                        port_universe, history>>
    ELSE Unregister("unregister_device", UniqueId(device), device)

\* DeviceManager::UnregisterDevice(const AbstractDevice *device)
UnregisterDeviceByPointer(device) ==
    IF ~HasUniqueId(device)
    THEN /\ call' = Call("unregister_device", NULL, FALSE, "", {})
         /\ UNCHANGED <<manager, has_preferences, m_port_preferences, durable,
                        port_universe, history>>
    ELSE Unregister("unregister_device", UniqueId(device), device)

(***************************************************************************)
(* UnregisterAllDevices.                                                   *)
(***************************************************************************)
\* the keys of m_devices in the order std::map iterates them
RecordKeys(devices) ==
    SelectSeq(SubSeq(IdTable, 1, NumIdentities), LAMBDA id : id \in DOMAIN devices)

\* the last active device the loop over m_devices comes to, NULL when none is
LastActive(devices) ==
    LET active == SelectSeq(RecordKeys(devices),
                            LAMBDA id : devices[id].device # NULL)
    IN  IF active = <<>> THEN NULL ELSE devices[active[Len(active)]].device

\* (bug: the devices are cleared without saving their patchings)
SaveAllSkipped(store, bind, devices, keys, i) == store

RECURSIVE SaveAll(_, _, _, _, _)
SaveAll(store, bind, devices, keys, i) ==
    IF i > Len(keys) THEN store
    ELSE SaveAll(SaveDevicePortPatchings(store, bind, devices[keys[i]].device),
                 bind, devices, keys, i + 1)

\* DeviceManager::UnregisterAllDevices
UnregisterAllDevices ==
    /\ m_port_preferences' =
           SaveAll(m_port_preferences, port_universe, m_devices,
                   RecordKeys(m_devices), 1)
    /\ m_devices' = [id \in DOMAIN m_devices |->
                        DeviceAliasPair(m_devices[id].alias, NULL)]
    /\ m_alias_map' = EmptyMap
    /\ call' = Call("unregister_all", LastActive(m_devices), TRUE, "", {})
    /\ registered' = {}
    /\ last_saved' =
           BoundWhenUnregistered(last_saved, port_universe,
               {m_devices[id].device : id \in DOMAIN m_devices} \ {NULL})
    /\ UNCHANGED <<m_next_device_alias, has_preferences, durable,
                   port_universe, reg_order, first_alias>>

(***************************************************************************)
(* The clients of the daemon patch and unpatch the ports of the devices    *)
(* they reach through the manager, that is of the active devices.          *)
(***************************************************************************)
Reachable(device) ==
    \E alias \in DOMAIN m_alias_map : m_alias_map[alias] = device

\* Universe::AddPort on a universe of the store
PatchPort(port, universe) ==
    /\ Reachable(port[1])
    /\ port_universe[port] # universe
    /\ port_universe' = [port_universe EXCEPT ![port] = universe]
    /\ call' = Call("patch", NULL, TRUE, "", {})
    /\ UNCHANGED <<manager, has_preferences, m_port_preferences, durable,
                   history>>

\* Universe::RemovePort
UnpatchPort(port) ==
    /\ Reachable(port[1])
    /\ port_universe[port] # NoUniverse
    /\ port_universe' = [port_universe EXCEPT ![port] = NoUniverse]
    /\ call' = Call("unpatch", NULL, TRUE, "", {})
    /\ UNCHANGED <<manager, has_preferences, m_port_preferences, durable,
                   history>>

(***************************************************************************)
(* Construction and the specifications.                                    *)
(***************************************************************************)
\* the unique ids UnregisterDevice(const string&) is called with: those of
\* the devices (registered before or not) and the empty string
LookupIds == DeviceIds \cup {""}

\* DeviceManager::DeviceManager, given the preferences factory or none, and
\* the preferences on disk
Construct(prefs_factory, stored) ==
    /\ m_devices = EmptyMap
    /\ m_alias_map = EmptyMap
    /\ m_next_device_alias = FIRST_DEVICE_ALIAS
    /\ has_preferences = prefs_factory
    /\ durable = stored
    /\ m_port_preferences = IF prefs_factory THEN durable ELSE EmptyMap
    /\ port_universe = [p \in AllPorts |-> NoUniverse]
    /\ call = Call("init", NULL, TRUE, "", {})
    /\ reg_order = <<>>
    /\ first_alias = EmptyMap
    /\ registered = {}
    /\ last_saved = SavedEarlier(stored)

\* (bug: the destructor does not save the preferences)
SaveForgotten(store, disk) == disk

\* the preferences on disk after ~DeviceManager: saved when there are any
SavedOnExit(store, disk) == IF has_preferences THEN store ELSE disk

\* DeviceManager::~DeviceManager: the daemon stops.  The devices are not
\* unregistered and their patchings are not saved here.
Destroy ==
    /\ call.op # "destroy"
    /\ durable' = SavedOnExit(m_port_preferences, durable)
    /\ call' = Call("destroy", NULL, TRUE, "", {})
    /\ UNCHANGED <<manager, has_preferences, m_port_preferences,
                   port_universe, history>>

\* DeviceManager::DeviceManager in the next process, over the same disk: the
\* devices and ports of the new process are new objects, no port is patched
StartAgain ==
    /\ call.op = "destroy"
    /\ m_devices' = EmptyMap
    /\ m_alias_map' = EmptyMap
    /\ m_next_device_alias' = FIRST_DEVICE_ALIAS
    /\ m_port_preferences' = IF has_preferences THEN durable ELSE EmptyMap
    /\ port_universe' = [p \in AllPorts |-> NoUniverse]
    /\ call' = Call("init", NULL, TRUE, "", {})
    /\ reg_order' = <<>>
    /\ first_alias' = EmptyMap
    /\ registered' = {}
    /\ UNCHANGED <<has_preferences, durable, last_saved>>

\* whether strtol sets EINVAL matters only when a value of one of the device's
\* ports converts to nothing; elsewhere one choice stands for both
LibraryChoices(device) ==
    IF device # NULL /\ \E i \in 1..Len(Ports(device)) :
          NoConversion(GetValue(m_port_preferences, PortUniqueId(Ports(device)[i])))
    THEN BOOLEAN ELSE {FALSE}

Init == Construct(TRUE, ExampleStore)

InitLegacy == Construct(TRUE, LegacyStore)

InitNoPreferences == Construct(FALSE, ExampleStore)

Next ==
    \/ \E device \in Devices \cup {NULL} :
           \E einval \in LibraryChoices(device) : RegisterDevice(device, einval)
    \/ \E device_id \in LookupIds : UnregisterDeviceById(device_id)
    \/ \E device \in Devices \cup {NULL} : UnregisterDeviceByPointer(device)
    \/ UnregisterAllDevices
    \/ \E port \in AllPorts, universe \in UniverseIds : PatchPort(port, universe)
    \/ \E port \in AllPorts : UnpatchPort(port)

\* the calls of one process, and the daemon stopping and starting again
NextRestart ==
    \/ call.op # "destroy" /\ Next
    \/ Destroy
    \/ StartAgain

\* a first start: no preferences on disk
InitFirstStart == Construct(TRUE, EmptyMap)

\* the manager constructed with a preferences factory, over the example store
Spec == Init /\ [][Next]_vars

\* the same over the legacy store
SpecLegacy == InitLegacy /\ [][Next]_vars

\* the manager constructed without one
SpecNoPreferences == InitNoPreferences /\ [][Next]_vars

\* the daemon started for the first time, stopped and started again
SpecRestart == InitFirstStart /\ [][NextRestart]_vars

(***************************************************************************)
(* Vocabulary of the properties.                                           *)
(***************************************************************************)
PortsOf(device) == {Ports(device)[i] : i \in 1..Len(Ports(device))}

UnregisterOps == {"unregister_id", "unregister_device"}

\* the two instances of identity 1 and their ports
FirstInstance == <<1, 1>>
SecondInstance == <<1, 2>>
PortOfFirst == <<FirstInstance, 1>>
PortOfSecond == <<SecondInstance, 1>>

\* this step is a successful registration
Registers == call'.op = "register" /\ call'.result

\* this step is a successful unregistration (either overload)
Unregisters == call'.op \in UnregisterOps /\ call'.result

\* the devices whose patchings this step saves
SavedDevices ==
    IF call'.op = "unregister_all"
    THEN {m_devices[id].device : id \in DOMAIN m_devices} \ {NULL}
    ELSE IF Unregisters THEN {call'.device}
    ELSE {}

\* the aliases looked up: those the counter can reach, the sentinel and one
\* beyond the counter
AliasRange == MISSING_DEVICE_ALIAS..(FIRST_DEVICE_ALIAS + NumIdentities)

\* the calls of the manager
ManagerOps ==
    UnregisterOps \cup {"register", "unregister_all"}

\* this step is a call of the manager that returned failure
Fails == call'.op \in UnregisterOps \cup {"register"} /\ ~call'.result

(***************************************************************************)
(* C1  Alias stability: whenever a unique id is registered, the alias      *)
(* that GetDevice(id) and Devices() report for it is the alias reported    *)
(* after its first successful registration, whatever registrations and     *)
(* unregistrations came in between.                                        *)
(***************************************************************************)
AliasStability ==
    \A id \in DeviceIds :
        IsActive(m_devices, id) =>
            /\ id \in DOMAIN first_alias
            /\ GetDeviceById(id).alias = first_alias[id]
            /\ \E pair \in ListDevices :
                   /\ pair.device = GetDeviceById(id).device
                   /\ pair.alias = first_alias[id]

\* The second instance of usb-1 has just been registered while the port of
\* the first instance is patched: ports are patched only while their device
\* is registered, so this is at least the second registration of usb-1; and
\* usb-1 was not the first id to register.
AliasStabilityWitness ==
    /\ call.op = "register" /\ call.result
    /\ call.device = SecondInstance
    /\ port_universe[PortOfFirst] = MaxUniverseId
    /\ GetDeviceById("usb-1").alias = FIRST_DEVICE_ALIAS + 1


(***************************************************************************)
(* C2  Alias uniqueness: no two Identity Records, active or not, hold the  *)
(* same alias; and no record holds an alias other than the one its unique  *)
(* id was first given, so an alias never passes to another identity.       *)
(***************************************************************************)
AliasUniqueness ==
    /\ \A id1, id2 \in DOMAIN m_devices :
           id1 # id2 => m_devices[id1].alias # m_devices[id2].alias
    /\ \A id1, id2 \in DOMAIN first_alias :
           id1 # id2 => /\ id2 \in DOMAIN m_devices
                        /\ m_devices[id2].alias # first_alias[id1]

\* usb-3 has just been given its alias while usb-1, registered and
\* unregistered before, is inactive and usb-2 is active
AliasUniquenessWitness ==
    /\ call.op = "register" /\ call.result /\ call.device = <<3, 1>>
    /\ reg_order = <<"usb-1", "usb-2", "usb-3">>
    /\ ~IsActive(m_devices, "usb-1")
    /\ IsActive(m_devices, "usb-2")

(***************************************************************************)
(* C3  Alias allocation order: the k-th unique id to register              *)
(* successfully holds alias k (the first alias being 1), whatever failed   *)
(* registrations, unregistrations and re-registrations are interleaved.    *)
(***************************************************************************)
AllocationOrder ==
    /\ FIRST_DEVICE_ALIAS = 1
    /\ DOMAIN m_devices = {reg_order[k] : k \in 1..Len(reg_order)}
    /\ \A k \in 1..Len(reg_order) :
           /\ m_devices[reg_order[k]].alias = k
           /\ IsActive(m_devices, reg_order[k]) =>
                  GetDeviceById(reg_order[k]).alias = k

\* the spec's scenario: usb-1 and usb-2 registered in that order, usb-1
\* unregistered and registered again (as its second instance; the port of the
\* first instance is bound, so the first instance was registered before), then
\* usb-3 registered: aliases 1, 2 and 3
AllocationOrderWitness ==
    /\ call.op = "register" /\ call.result /\ call.device = <<3, 1>>
    /\ GetDeviceById("usb-3").alias = 3
    /\ GetDeviceById("usb-2").alias = 2
    /\ GetDeviceById("usb-1") = DeviceAliasPair(1, SecondInstance)
    /\ port_universe[PortOfFirst] # NoUniverse

(***************************************************************************)
(* C4  GetDevice(unique_id) returns the record of the id exactly while     *)
(* the id is registered, with the alias of its first registration, which   *)
(* is never 0; for every other id (never seen, or unregistered) it         *)
(* returns {MISSING_DEVICE_ALIAS, NULL}.  After a registration it returns  *)
(* the device just registered.                                             *)
(***************************************************************************)
LookupById ==
    /\ \A id \in DOMAIN m_devices : m_devices[id].alias # MISSING_DEVICE_ALIAS
    /\ \A id \in LookupIds :
           IF id \in registered
           THEN /\ GetDeviceById(id).device # NULL
                /\ GetDeviceById(id).alias = first_alias[id]
                /\ GetDeviceById(id).alias # MISSING_DEVICE_ALIAS
           ELSE GetDeviceById(id) = DeviceAliasPair(MISSING_DEVICE_ALIAS, NULL)
    /\ (call.op = "register" /\ call.result) =>
           GetDeviceById(UniqueId(call.device)).device = call.device

\* usb-1 was registered (the port of its first instance is bound), then
\* unregistered, registered as its second instance and has just been
\* unregistered again: the lookup gives the sentinel, the record keeps the alias
LookupByIdWitness ==
    /\ call.op \in UnregisterOps /\ call.result
    /\ call.device = SecondInstance
    /\ port_universe[PortOfFirst] # NoUniverse
    /\ GetDeviceById("usb-1") = DeviceAliasPair(MISSING_DEVICE_ALIAS, NULL)
    /\ "usb-1" \in DOMAIN m_devices
    /\ m_devices["usb-1"].alias = first_alias["usb-1"]


(***************************************************************************)
(* C5  RegisterDevice of NULL, or of a device whose UniqueId() is empty,   *)
(* returns false (no registration that returns true is one of NULL or of   *)
(* a device without unique id) and a refused registration leaves           *)
(* DeviceCount() as it was; no Identity Record is ever keyed by the empty  *)
(* string.                                                                 *)
(***************************************************************************)
RejectsMissingId ==
    [][ /\ "" \notin DOMAIN m_devices'
        /\ Registers => (call'.device # NULL /\ UniqueId(call'.device) # "")
        /\ (call'.op = "register" /\ ~call'.result) =>
               DeviceCount' = DeviceCount
      ]_vars

\* a registration was refused for its argument (NULL logs nothing, the empty
\* id logs "is missing UniqueId") while two devices were registered
RejectsMissingIdWitness ==
    /\ call.op = "register" /\ ~call.result
    /\ call.log \in {"", "is missing UniqueId"}
    /\ DeviceCount = 2
    /\ "" \notin DOMAIN m_devices

(***************************************************************************)
(* C6  Duplicate registration: RegisterDevice of a device whose unique id  *)
(* has an active record (the registered device itself or another one)      *)
(* returns false (no registration that returns true is one of an id        *)
(* active before it); after a refused registration GetDevice by id and by  *)
(* alias still give the device registered first with its alias, and no     *)
(* port is restored (no binding changes, no universe is asked for).        *)
(***************************************************************************)
DuplicateRegistration ==
    [][ /\ Registers => ~IsActive(m_devices, UniqueId(call'.device))
        /\ (call'.op = "register" /\ ~call'.result) =>
               /\ \A id \in DeviceIds :
                      /\ GetDeviceById(id)' = GetDeviceById(id)
                      /\ IsActive(m_devices, id) =>
                             GetDeviceByAlias(GetDeviceById(id).alias)' =
                                 GetDeviceById(id).device
               /\ port_universe' = port_universe
               /\ call'.requested = {}
      ]_vars

\* a registration under usb-1, the only registered id, was refused as a
\* duplicate while the preferences hold a value for portA and the ports of both
\* instances are unpatched: a restore would have patched the port
DuplicateRegistrationWitness ==
    /\ call.op = "register" /\ ~call.result
    /\ call.log = "is already registered"
    /\ registered = {"usb-1"}
    /\ GetDeviceById("usb-1").device = FirstInstance
    /\ "portA" \in DOMAIN m_port_preferences
    /\ port_universe[PortOfFirst] = NoUniverse
    /\ port_universe[PortOfSecond] = NoUniverse

(***************************************************************************)
(* C7  A RegisterDevice or UnregisterDevice call (either overload) that    *)
(* returns false leaves the Identity Records, the Alias Index, the alias   *)
(* counter, the preferences and every port binding as they were.           *)
(***************************************************************************)
FailureChangesNothing ==
    [][ Fails =>
            /\ UNCHANGED <<m_devices, m_alias_map, m_next_device_alias>>
            /\ UNCHANGED <<m_port_preferences, durable, port_universe>>
            /\ call'.requested = {}
      ]_vars

\* an unregistration of an id without record was refused while another id is
\* registered, with a patched port and a stored value
FailureChangesNothingWitness ==
    /\ call.op \in UnregisterOps /\ ~call.result
    /\ call.log = "not found"
    /\ registered = {"usb-1"}
    /\ DOMAIN m_devices = {"usb-1"}
    /\ port_universe[PortOfFirst] = MaxUniverseId
    /\ "portA" \in DOMAIN m_port_preferences

(***************************************************************************)
(* C8  DeviceCount() is the number of unique ids registered and not since  *)
(* unregistered, however many inactive records are kept, and Devices()     *)
(* has exactly one {alias, device} entry for each of them.                 *)
(***************************************************************************)
DeviceCountMatches ==
    /\ DeviceCount = Cardinality(registered)
    /\ Cardinality(ListDevices) = DeviceCount
    /\ \A pair \in ListDevices :
           /\ pair.device # NULL
           /\ UniqueId(pair.device) \in registered
           /\ pair = GetDeviceById(UniqueId(pair.device))
    /\ \A id \in registered :
           \E pair \in ListDevices : UniqueId(pair.device) = id

\* one device registered, two inactive records kept
DeviceCountMatchesWitness ==
    /\ DeviceCount = 1
    /\ Cardinality(DOMAIN m_devices) = 3
    /\ registered = {"usb-2"}
    /\ Cardinality(ListDevices) = 1

(***************************************************************************)
(* C9  Patch round trip: when a device is unregistered and a device of     *)
(* the same unique id (the same object, or its instance after a            *)
(* reconnect) is registered next, every port with a non-empty unique id    *)
(* that was bound to universe u is bound to universe u afterwards (on the  *)
(* new instance: the port with the same unique id).                        *)
(***************************************************************************)
PatchRoundTrip ==
    [][ (/\ call.op \in UnregisterOps /\ call.result
         /\ Registers
         /\ UniqueId(call'.device) = UniqueId(call.device)) =>
            \A p \in PortsOf(call.device) : \A q \in PortsOf(call'.device) :
                (/\ PortUniqueId(p) # ""
                 /\ PortUniqueId(q) = PortUniqueId(p)
                 /\ port_universe[p] # NoUniverse) =>
                    port_universe'[q] = port_universe[p]
      ]_vars

\* the second instance of usb-1 has just been registered and the restore bound
\* its port to the universe clients patch to: the stored id was written by
\* a save of a port bound to it (the file on disk held 5)
PatchRoundTripWitness ==
    /\ call.op = "register" /\ call.result
    /\ call.device = SecondInstance
    /\ call.requested = {MaxUniverseId}
    /\ port_universe[PortOfSecond] = MaxUniverseId
    /\ port_universe[PortOfFirst] = MaxUniverseId

(***************************************************************************)
(* C10 Unpatching: a save (UnregisterDevice, UnregisterAllDevices) of a    *)
(* device leaves no key in the preferences for any of its ports that has   *)
(* a non-empty unique id and is not bound to a universe, whatever was      *)
(* stored for it before; and a registration that finds no key for a port   *)
(* leaves the port's binding as it is, so an unpatched port stays          *)
(* unpatched.                                                              *)
(***************************************************************************)
Unpatching ==
    [][ /\ \A device \in SavedDevices : \A p \in PortsOf(device) :
               (PortUniqueId(p) # "" /\ port_universe[p] = NoUniverse) =>
                   PortUniqueId(p) \notin DOMAIN m_port_preferences'
        /\ Registers =>
               \A q \in PortsOf(call'.device) :
                   (/\ PortUniqueId(q) # ""
                    /\ PortUniqueId(q) \notin DOMAIN m_port_preferences) =>
                       /\ port_universe'[q] = port_universe[q]
                       /\ PortUniqueId(q) \notin DOMAIN m_port_preferences'
      ]_vars

\* the first instance of usb-1 was unregistered with its port bound to
\* MaxUniverseId (it still is), which stored the id; the second instance,
\* registered after it, got its port bound by the restore; the port was then
\* unpatched and the instance has just been unregistered: the key is gone
UnpatchingWitness ==
    /\ call.op \in UnregisterOps /\ call.result
    /\ call.device = SecondInstance
    /\ port_universe[PortOfFirst] = MaxUniverseId
    /\ port_universe[PortOfSecond] = NoUniverse
    /\ "portA" \notin DOMAIN m_port_preferences

(***************************************************************************)
(* C11 Restore on register: every RegisterDevice that returns true (of an  *)
(* id seen for the first time or of one registered before) leaves each     *)
(* port of the device whose non-empty unique id has, in the preferences,   *)
(* the decimal string of an integer n bound to universe n, which was asked *)
(* of GetUniverseOrCreate; with {portA: "5"} stored, the port portA of the *)
(* registered device is bound to universe 5.                               *)
(***************************************************************************)
RestoreOnRegister ==
    [][ Registers =>
            \A q \in PortsOf(call'.device) :
                \A n \in StoredInteger(GetValue(m_port_preferences,
                                                PortUniqueId(q))) :
                    PortUniqueId(q) # "" =>
                        /\ port_universe'[q] = n
                        /\ n \in call'.requested
      ]_vars

\* the spec's example: usb-1 has just been registered over the preferences
\* {portA: "5"} (only the file on disk holds 5: clients patch to
\* MaxUniverseId) and its port portA is bound to universe 5, which was asked
\* of the universe store
RestoreOnRegisterWitness ==
    /\ call.op = "register" /\ call.result
    /\ call.device = FirstInstance
    /\ m_port_preferences = ExampleStore
    /\ port_universe[PortOfFirst] = 5
    /\ call.requested = {5}

(***************************************************************************)
(* C12 Malformed persisted value: when the preferences hold, for the       *)
(* non-empty unique id of a port, a non-empty string in which strtol finds *)
(* no number ("abc"), RegisterDevice returns true, leaves the port as it   *)
(* was, not bound to universe 0, and asks no universe of the universe      *)
(* store for it.                                                           *)
(***************************************************************************)
MalformedValueSkipped ==
    [][ Registers =>
            \A q \in PortsOf(call'.device) :
                LET uni_id == GetValue(m_port_preferences, PortUniqueId(q))
                IN  (/\ PortUniqueId(q) # ""
                     /\ uni_id # <<>>
                     /\ NoConversion(uni_id)) =>
                        /\ port_universe'[q] = port_universe[q]
                        /\ port_universe'[q] # 0
                        /\ 0 \notin call'.requested
      ]_vars

(***************************************************************************)
(* C13 After UnregisterAllDevices, DeviceCount() is 0 and the Alias Index  *)
(* is empty: GetDevice(alias) is NULL for every alias and GetDevice(id)    *)
(* is {MISSING_DEVICE_ALIAS, NULL} for every id; every Identity Record     *)
(* that existed is still there with its alias and a NULL device; and for   *)
(* every port with a non-empty unique id of every device that was active   *)
(* the preferences hold the id of the universe the port is bound to, or    *)
(* no key when it is not bound.                                            *)
(***************************************************************************)
UnregisterAllPostcondition ==
    [][ call'.op = "unregister_all" =>
            /\ DeviceCount' = 0
            /\ m_alias_map' = EmptyMap
            /\ \A alias \in AliasRange : GetDeviceByAlias(alias)' = NULL
            /\ \A id \in LookupIds :
                   GetDeviceById(id)' =
                       DeviceAliasPair(MISSING_DEVICE_ALIAS, NULL)
            /\ DOMAIN m_devices' = DOMAIN m_devices
            /\ \A id \in DOMAIN m_devices :
                   m_devices'[id] = DeviceAliasPair(m_devices[id].alias, NULL)
            /\ \A device \in SavedDevices : \A p \in PortsOf(device) :
                   PortUniqueId(p) # "" =>
                       IF port_universe[p] = NoUniverse
                       THEN PortUniqueId(p) \notin DOMAIN m_port_preferences'
                       ELSE /\ PortUniqueId(p) \in DOMAIN m_port_preferences'
                            /\ m_port_preferences'[PortUniqueId(p)] =
                                   IntToString(port_universe[p])
      ]_vars

\* UnregisterAllDevices has just run with usb-2 active (the last active device
\* of the loop), its port patched, and nothing stored for portB on disk: the
\* three records are kept, the index is empty and the universe id is stored
UnregisterAllPostconditionWitness ==
    /\ call.op = "unregister_all"
    /\ call.device = <<2, 1>>
    /\ DOMAIN m_devices = DeviceIds
    /\ m_alias_map = EmptyMap
    /\ port_universe[<<<<2, 1>>, 1>>] = MaxUniverseId
    /\ GetValue(m_port_preferences, "portB") = IntToString(MaxUniverseId)

(***************************************************************************)
(* C14 The Alias Index is the live view of the Identity Records: in every  *)
(* state it holds alias -> device exactly for the records whose device is  *)
(* not NULL; so GetDevice(alias) is device d iff an active record has that *)
(* alias and device d, and for every active unique id GetDevice by the     *)
(* alias of GetDevice(id) gives the device of GetDevice(id).               *)
(***************************************************************************)
AliasIndexLive ==
    /\ DOMAIN m_alias_map =
           {m_devices[id].alias : id \in {i \in DOMAIN m_devices :
                                             m_devices[i].device # NULL}}
    /\ \A alias \in AliasRange : \A d \in Devices :
           GetDeviceByAlias(alias) = d <=>
               \E id \in DOMAIN m_devices :
                   m_devices[id] = DeviceAliasPair(alias, d)
    /\ \A id \in DeviceIds :
           IsActive(m_devices, id) =>
               GetDeviceByAlias(GetDeviceById(id).alias) =
                   GetDeviceById(id).device

\* usb-1 has just been unregistered while usb-2 and usb-3 stay registered: the
\* index holds the aliases 2 and 3 only
AliasIndexLiveWitness ==
    /\ call.op \in UnregisterOps /\ call.result
    /\ UniqueId(call.device) = "usb-1"
    /\ reg_order = <<"usb-1", "usb-2", "usb-3">>
    /\ registered = {"usb-2", "usb-3"}
    /\ DOMAIN m_alias_map = {2, 3}

(***************************************************************************)
(* C15 Identity Records are never deleted or renumbered: in every step     *)
(* (RegisterDevice, both UnregisterDevice overloads, UnregisterAllDevices) *)
(* the unique ids that have a record only grow and the alias of a record   *)
(* does not change; an unregistration changes nothing of the records but   *)
(* the device field, which it sets to NULL.                                *)
(***************************************************************************)
RecordsOnlyGrow ==
    [][ /\ DOMAIN m_devices \subseteq DOMAIN m_devices'
        /\ \A id \in DOMAIN m_devices :
               m_devices'[id].alias = m_devices[id].alias
        /\ (Unregisters \/ call'.op = "unregister_all") =>
               /\ DOMAIN m_devices' = DOMAIN m_devices
               /\ \A id \in DOMAIN m_devices :
                      m_devices'[id].device \in {m_devices[id].device, NULL}
      ]_vars

\* usb-2 has just been unregistered: its record is kept with alias 2 and no
\* device, among the records of three ids
RecordsOnlyGrowWitness ==
    /\ call.op \in UnregisterOps /\ call.result
    /\ call.device = <<2, 1>>
    /\ DOMAIN m_devices = DeviceIds
    /\ m_devices["usb-2"] = DeviceAliasPair(2, NULL)

(***************************************************************************)
(* C16 Save on unregister: after an UnregisterDevice that returns true,    *)
(* for each port of the unregistered device with a non-empty unique id k   *)
(* the preferences map k to the decimal string of the id of the universe   *)
(* the port is bound to, or have no entry for k when it is not bound       *)
(* (whether or not k was stored before); a port with an empty unique id    *)
(* causes no write; every key that is not the unique id of one of the      *)
(* device's ports keeps its value; and no port binding changes.            *)
(***************************************************************************)
SaveOnUnregister ==
    [][ Unregisters =>
            /\ \A p \in PortsOf(call'.device) :
                   PortUniqueId(p) # "" =>
                       IF port_universe[p] = NoUniverse
                       THEN PortUniqueId(p) \notin DOMAIN m_port_preferences'
                       ELSE /\ PortUniqueId(p) \in DOMAIN m_port_preferences'
                            /\ m_port_preferences'[PortUniqueId(p)] =
                                   IntToString(port_universe[p])
            /\ "" \notin DOMAIN m_port_preferences'
            /\ \A k \in DOMAIN m_port_preferences \cup DOMAIN m_port_preferences' :
                   k \notin {PortUniqueId(p) : p \in PortsOf(call'.device)} =>
                       /\ k \in DOMAIN m_port_preferences
                       /\ k \in DOMAIN m_port_preferences'
                       /\ m_port_preferences'[k] = m_port_preferences[k]
            /\ port_universe' = port_universe
      ]_vars

\* usb-2 has just been unregistered with its port bound to MaxUniverseId:
\* portB holds the id (nothing was stored for portB on disk) and portA keeps
\* the value loaded from disk
SaveOnUnregisterWitness ==
    /\ call.op \in UnregisterOps /\ call.result
    /\ call.device = <<2, 1>>
    /\ port_universe[<<<<2, 1>>, 1>>] = MaxUniverseId
    /\ m_port_preferences =
           [k \in {"portA", "portB"} |->
               IF k = "portA" THEN <<"5">> ELSE IntToString(MaxUniverseId)]

(***************************************************************************)
(* C17 Restore skips missing values: in a RegisterDevice that returns      *)
(* true, every port whose unique id is empty, or has no value or an empty  *)
(* value in the preferences, keeps the binding it had (an unpatched port   *)
(* stays unpatched), no universe is asked of the universe store for it,    *)
(* and the preferences are not modified.                                   *)
(***************************************************************************)
RestoreSkipsMissing ==
    [][ Registers =>
            /\ UNCHANGED <<m_port_preferences, durable>>
            /\ \A q \in PortsOf(call'.device) :
                   (\/ PortUniqueId(q) = ""
                    \/ GetValue(m_port_preferences, PortUniqueId(q)) = <<>>) =>
                       port_universe'[q] = port_universe[q]
            /\ call'.requested \subseteq
                   {StrtolValue(GetValue(m_port_preferences, PortUniqueId(q))) :
                       q \in {r \in PortsOf(call'.device) :
                                 /\ PortUniqueId(r) # ""
                                 /\ GetValue(m_port_preferences,
                                             PortUniqueId(r)) # <<>>}}
      ]_vars

\* usb-1 has just been registered over preferences that hold an empty value
\* for its port portA: the port is not patched and no universe was asked for
RestoreSkipsMissingWitness ==
    /\ call.op = "register" /\ call.result
    /\ call.device = FirstInstance
    /\ "portA" \in DOMAIN m_port_preferences
    /\ m_port_preferences["portA"] = <<>>
    /\ port_universe[PortOfFirst] = NoUniverse
    /\ call.requested = {}

(***************************************************************************)
(* C18 UnregisterDevice(device) is resolved by unique id against the       *)
(* active device: called with d2 it returns true iff d2 is not NULL, has   *)
(* a unique id and an active record exists for that id (a call that        *)
(* returns true was given such a d2, and no call that returns false is a   *)
(* call with such a d2); and when it returns true, also when d2 is         *)
(* another object than the registered device d1, the patchings saved are   *)
(* those of the ports of d1, the alias of d1 leaves the Alias Index and    *)
(* the record keeps its alias with a NULL device.                          *)
(***************************************************************************)
UnregisterByReference ==
    [][ /\ (call'.op = "unregister_device" /\ call'.result) =>
               LET d2 == call'.reference
                   record == m_devices[UniqueId(d2)]
               IN  /\ d2 # NULL
                   /\ UniqueId(d2) # ""
                   /\ IsActive(m_devices, UniqueId(d2))
                   /\ call'.device = record.device
                   /\ \A p \in PortsOf(record.device) :
                          PortUniqueId(p) # "" =>
                              GetValue(m_port_preferences', PortUniqueId(p)) =
                                  IF port_universe[p] = NoUniverse
                                  THEN <<>>
                                  ELSE IntToString(port_universe[p])
                   /\ record.alias \notin DOMAIN m_alias_map'
                   /\ m_devices'[UniqueId(d2)] =
                          DeviceAliasPair(record.alias, NULL)
        /\ (call'.op = "unregister_device" /\ ~call'.result) =>
               \A d2 \in Devices :
                   (UniqueId(d2) # "" /\ IsActive(m_devices, UniqueId(d2))) =>
                       ~UnregisterDeviceByPointer(d2)
      ]_vars

\* UnregisterDevice was called with the first instance of usb-1, whose port is
\* bound to MaxUniverseId, while the second instance was the registered one,
\* with its port unpatched: the key of the port is gone from the preferences
\* (the state of the registered device's port, not of the argument's), the
\* alias left the index and the record keeps it
UnregisterByReferenceWitness ==
    /\ call.op = "unregister_device" /\ call.result
    /\ call.reference = FirstInstance
    /\ call.device = SecondInstance
    /\ port_universe[PortOfFirst] = MaxUniverseId
    /\ port_universe[PortOfSecond] = NoUniverse
    /\ "portA" \notin DOMAIN m_port_preferences
    /\ m_devices["usb-1"] = DeviceAliasPair(FIRST_DEVICE_ALIAS, NULL)
    /\ FIRST_DEVICE_ALIAS \notin DOMAIN m_alias_map

(***************************************************************************)
(* C19 Patch state survives a restart of the daemon: the destructor saves  *)
(* the preferences and the constructor of the next manager loads them, so  *)
(* a port with a non-empty unique id that was bound to universe u when     *)
(* its device was unregistered (by UnregisterDevice or                     *)
(* UnregisterAllDevices) under an earlier manager is bound to u when the   *)
(* device registers with the new manager.  (Nothing is claimed of the      *)
(* patchings of devices still registered when the manager is destroyed.)   *)
(***************************************************************************)
PatchSurvivesRestart ==
    [][ /\ call'.op = "destroy" => durable' = m_port_preferences
        /\ call.op = "destroy" =>
               /\ m_port_preferences' = durable
               /\ m_devices' = EmptyMap
        /\ (Registers /\ UniqueId(call'.device) \notin DOMAIN m_devices) =>
               \A q \in PortsOf(call'.device) :
                   (/\ PortUniqueId(q) # ""
                    /\ PortUniqueId(q) \in DOMAIN last_saved) =>
                       /\ port_universe'[q] = last_saved[PortUniqueId(q)]
                       /\ last_saved[PortUniqueId(q)] \in call'.requested
      ]_vars

\* usb-2 has just been registered and its port is bound to the universe
\* clients patch to, which the disk holds for portB: the daemon was started
\* with nothing on disk, so an earlier manager saved the binding when usb-2
\* was unregistered and wrote it to disk when it was destroyed
PatchSurvivesRestartWitness ==
    /\ call.op = "register" /\ call.result
    /\ call.device = <<2, 1>>
    /\ m_devices = [id \in {"usb-2"} |->
                       DeviceAliasPair(FIRST_DEVICE_ALIAS, <<2, 1>>)]
    /\ GetValue(durable, "portB") = IntToString(MaxUniverseId)
    /\ last_saved = [k \in {"portB"} |-> MaxUniverseId]
    /\ port_universe[<<<<2, 1>>, 1>>] = MaxUniverseId
    /\ call.requested = {MaxUniverseId}

\* The stronger statement, that the patchings of the devices still registered
\* at destruction are on disk afterwards, does not hold: the destructor saves
\* the preferences as the last unregistration left them.
ActivePatchingsFlushed ==
    [][ call'.op = "destroy" =>
            \A id \in registered : \A p \in PortsOf(m_devices[id].device) :
                (PortUniqueId(p) # "" /\ port_universe[p] # NoUniverse) =>
                    GetValue(durable', PortUniqueId(p)) =
                        IntToString(port_universe[p])
      ]_vars

(***************************************************************************)
(* C20 A manager constructed without preferences factory: RegisterDevice,  *)
(* UnregisterDevice and UnregisterAllDevices return true and false in the  *)
(* same cases as with a store (a registration succeeds exactly for a       *)
(* device with a unique id that has no active record, an unregistration    *)
(* exactly for an id with an active record) and keep the same alias        *)
(* bookkeeping (stable, unique aliases in order of first registration,     *)
(* lookups by id as with a store, in every state); but the manager         *)
(* changes no port binding, asks the universe store for no universe, and   *)
(* holds and persists no preferences.                                      *)
(***************************************************************************)
WithoutPreferences ==
    /\ [](AliasStability /\ AliasUniqueness /\ AllocationOrder /\ LookupById)
    /\ [][ /\ m_port_preferences' = EmptyMap
           /\ durable' = durable
           /\ call'.op \in ManagerOps =>
                  /\ port_universe' = port_universe
                  /\ call'.requested = {}
           /\ Registers =>
                  /\ HasUniqueId(call'.device)
                  /\ ~IsActive(m_devices, UniqueId(call'.device))
           /\ (call'.op = "register" /\ ~call'.result) =>
                  \A device \in Devices :
                      (/\ UniqueId(device) # ""
                       /\ ~IsActive(m_devices, UniqueId(device))) =>
                          ~RegisterDevice(device, FALSE)
           /\ Unregisters => IsActive(m_devices, UniqueId(call'.device))
           /\ (call'.op = "unregister_id" /\ ~call'.result) =>
                  \A id \in DeviceIds :
                      IsActive(m_devices, id) => ~UnregisterDeviceById(id)
           /\ (call'.op = "unregister_device" /\ ~call'.result) =>
                  \A device \in Devices :
                      (/\ UniqueId(device) # ""
                       /\ IsActive(m_devices, UniqueId(device))) =>
                          ~UnregisterDeviceByPointer(device)
           /\ call'.op = "unregister_all" => DeviceCount' = 0
         ]_vars

\* the second instance of usb-1 has just been registered under the alias of
\* usb-1's first registration; the port of the first instance was bound to
\* MaxUniverseId when that was unregistered, yet the port of the second is
\* not patched, no universe was asked for, and the manager holds no
\* preferences while the file on disk is as it was
WithoutPreferencesWitness ==
    /\ ~has_preferences
    /\ call.op = "register" /\ call.result
    /\ call.device = SecondInstance
    /\ GetDeviceById("usb-1").alias = first_alias["usb-1"]
    /\ "portA" \in DOMAIN last_saved
    /\ last_saved["portA"] = MaxUniverseId
    /\ port_universe[PortOfFirst] = MaxUniverseId
    /\ port_universe[PortOfSecond] = NoUniverse
    /\ call.requested = {}
    /\ m_port_preferences = EmptyMap
    /\ durable = ExampleStore

====
